---- MODULE Spec2Model ----
(***************************************************************************)
(* Model of the Project Autopilot setup tool (.opencode/tools/pa-setup.py) *)
(* and of its validator (.opencode/tools/validate-pa-project.py).          *)
(*                                                                         *)
(* The project directory is the state: the scaffold directories, the seed  *)
(* files and the git repository.  One run of main() is a sequence of       *)
(* steps, one action per function called by main().  Text files are        *)
(* sequences of tokens; a token is a character ("|", " ", "\n") or a run   *)
(* of characters that no searched substring can start or end inside.       *)
(***************************************************************************)
EXTENDS Integers, Sequences, FiniteSets, TLC

VARIABLES gitTool, repo, dirs, gitignore, backlog, validator, opencodeJson,
          profiles, pc, mode, profile, repoStatus, err, stdout, exitCode,
          writes, gitCalls, p, pre, prev, runs, commitsMade, vres

vars == <<gitTool, repo, dirs, gitignore, backlog, validator, opencodeJson,
          profiles, pc, mode, profile, repoStatus, err, stdout, exitCode,
          writes, gitCalls, p, pre, prev, runs, commitsMade, vres>>

(* ------------------------------ bounds --------------------------------- *)

\* number of fragments an initial ai/backlog.md is made of
MaxFrags == 2

\* number of setup runs in one behaviour
MaxRuns == 2

(* ------------------------------ text ----------------------------------- *)

Whitespace == {" ", "\n"}

LEGACY_MARKER == <<"|", " ", "_empty_", " ", "|">>

PLACEHOLDER == <<"|", " ", "TEMPLATE", " ", "|">>

HEADER == <<"|", " ", "ID | Title | Type | Status | Spec | Updated", " ", "|">>

SEPARATOR == <<"|", "----">>

BACKLOG_TEMPLATE ==
    <<"# Project Autopilot Backlog", "\n", "\n">>
    \o HEADER \o <<"\n">>
    \o SEPARATOR \o <<"|-------|------|--------|------|---------", "|", "\n">>
    \o PLACEHOLDER
    \o <<" ", "Add first item via /pa-spark | - | NEW | - | 1970-01-01", " ", "|", "\n">>

MIGRATED_HEADING ==
    <<"\n", "---", "\n", "\n", "## Migrated content (legacy)", "\n", "\n">>

\* Python: pat in s
Contains(s, pat) ==
    \E i \in 1..(Len(s) - Len(pat) + 1) : SubSeq(s, i, i + Len(pat) - 1) = pat

\* Python: s.replace(old, new), a left-to-right scan that resumes after each match
RECURSIVE Replace(_, _, _)
Replace(s, old, new) ==
    IF Len(s) < Len(old) THEN s
    ELSE IF SubSeq(s, 1, Len(old)) = old
         THEN new \o Replace(SubSeq(s, Len(old) + 1, Len(s)), old, new)
         ELSE <<Head(s)>> \o Replace(Tail(s), old, new)

RECURSIVE LStrip(_)
LStrip(s) ==
    IF s # <<>> /\ Head(s) \in Whitespace THEN LStrip(Tail(s)) ELSE s

RECURSIVE RStrip(_)
RStrip(s) ==
    IF s # <<>> /\ s[Len(s)] \in Whitespace THEN RStrip(SubSeq(s, 1, Len(s) - 1)) ELSE s

\* s.lstrip() in the place of s.strip()
StripLeftOnly(s) == LStrip(s)

\* Python: s.strip()
Strip(s) == RStrip(LStrip(s))

\* validate-pa-project.py: _has_backlog_table
HasBacklogTable(text) == Contains(text, HEADER) /\ Contains(text, SEPARATOR)

(* --------------------------- initial contents -------------------------- *)

Fragments ==
    { LEGACY_MARKER,
      <<" ", "_empty_", " ", "|">>,
      HEADER,
      SEPARATOR,
      HEADER \o <<"\n">> \o SEPARATOR,
      <<"notes">>,
      <<"\n">> }

RECURSIVE Texts(_)
Texts(n) ==
    IF n = 0 THEN { <<>> }
    ELSE Texts(n - 1) \cup { t \o f : t \in Texts(n - 1), f \in Fragments }

(* ----------------------------- constants -------------------------------- *)

Modes == {"interactive", "project", "full"}

\* "" stands for an omitted (or empty) --profile argument: both are falsy
ProfileArgs == {"", "dev"}

ProfileNames == ProfileArgs \ {""}

ScaffoldDirs ==
    {".opencode", ".opencode/tools", ".opencode/config-profiles",
     "ai", "ai/features", "ai/diary"}

ToolPatterns ==
    {"git *", "echo *", "pwd", "ls *", "cat *", "mkdir *", "python3 *",
     "python *", "node *", "npm *", "pnpm *", "yarn *", "bun *", "pytest *",
     "go *", "cargo *", "make *"}

MutatingPatterns == {"rm *", "cp *", "mv *"}

SCHEMA == "https://opencode.ai/config.json"

\* the "project" table copied from "interactive" without its three edits
OpencodePermissionsCopied(m) ==
    IF m \in {"interactive", "project"}
    THEN [bash |-> [pat \in {"*"} \cup ToolPatterns \cup MutatingPatterns |->
                      IF pat \in ToolPatterns THEN "allow" ELSE "ask"]]
    ELSE [external_directory |-> "allow", bash |-> [pat \in {"*"} |-> "allow"]]

\* pa-setup.py: opencode_permissions
OpencodePermissions(m) ==
    IF m = "interactive"
    THEN [bash |-> [pat \in {"*"} \cup ToolPatterns \cup MutatingPatterns |->
                      IF pat \in ToolPatterns THEN "allow" ELSE "ask"]]
    ELSE IF m = "project"
    THEN [bash |-> [pat \in {"*"} \cup ToolPatterns \cup MutatingPatterns |->
                      IF pat = "*" THEN "ask" ELSE "allow"]]
    ELSE [external_directory |-> "allow", bash |-> [pat \in {"*"} |-> "allow"]]

\* the document json.dumps serialises in write_opencode_json
OpencodeDocument(m) == [schema |-> SCHEMA, permission |-> OpencodePermissions(m)]

\* the document json.dumps serialises in write_profile
ProfileDocument(name, m) == [name |-> name, mode |-> m]

\* an opencode.json that was not written by this tool
UserDocument == [schema |-> "user", permission |-> [bash |-> [pat \in {"*"} |-> "deny"]]]

(* ------------------------------ validator ------------------------------ *)

\* a validator that returns at the first failed check
ValidatorErrorsFirstOnly ==
    IF opencodeJson = <<>> THEN <<"Missing opencode.json in project root">>
    ELSE IF "ai" \notin dirs THEN <<"Missing ai/ directory">>
    ELSE IF "ai/features" \notin dirs THEN <<"Missing ai/features">>
    ELSE IF "ai/diary" \notin dirs THEN <<"Missing ai/diary">>
    ELSE IF backlog = <<>> THEN <<"Missing ai/backlog.md">>
    ELSE IF ~HasBacklogTable(backlog[1])
         THEN <<"ai/backlog.md does not contain the required backlog table header">>
         ELSE <<>>

\* validate-pa-project.py: main, the list of errors in the order of the checks
ValidatorErrors ==
    (IF opencodeJson = <<>> THEN <<"Missing opencode.json in project root">> ELSE <<>>)
    \o (IF "ai" \notin dirs THEN <<"Missing ai/ directory">> ELSE <<>>)
    \o (IF "ai/features" \notin dirs THEN <<"Missing ai/features">> ELSE <<>>)
    \o (IF "ai/diary" \notin dirs THEN <<"Missing ai/diary">> ELSE <<>>)
    \o (IF backlog = <<>> THEN <<"Missing ai/backlog.md">>
        ELSE IF ~HasBacklogTable(backlog[1])
             THEN <<"ai/backlog.md does not contain the required backlog table header">>
             ELSE <<>>)

Bullets(errors) == [i \in 1..Len(errors) |-> <<"- ", errors[i]>>]

\* validate-pa-project.py: main, what it prints and returns
ValidatorMain ==
    IF ValidatorErrors # <<>>
    THEN [rc |-> 2, stdout |-> <<<<"PA validation FAILED:">>>> \o Bullets(ValidatorErrors),
          stderr |-> <<>>]
    ELSE [rc |-> 0, stdout |-> <<<<"PA validation OK">>>>, stderr |-> <<>>]

\* what a validator script that this tool did not write may do when it is run
OtherValidatorRuns ==
    { [rc |-> 0, stdout |-> <<<<"PA validation OK">>>>, stderr |-> <<>>],
      [rc |-> 2, stdout |-> <<<<"PA validation FAILED:">>, <<"- ", "custom check">>>>,
       stderr |-> <<>>],
      [rc |-> 1, stdout |-> <<>>, stderr |-> <<<<"Traceback">>>>] }

NoProcess == [rc |-> -1, stdout |-> <<>>, stderr |-> <<>>]

NoError == [type |-> "", msg |-> <<>>]

Snapshot ==
    [dirs |-> dirs, gitignore |-> gitignore, backlog |-> backlog,
     validator |-> validator, opencodeJson |-> opencodeJson,
     profiles |-> profiles, repo |-> repo]

(* -------------------------------- Init --------------------------------- *)

\* directories of the project root closed under "parent exists"
AiStates ==
    { {} } \cup { {"ai"} \cup s : s \in SUBSET {"ai/features", "ai/diary"} }

\* .opencode/ before the first run: directories, validator script, profile "dev"
OpencodeStates ==
    { [dirs |-> {}, validator |-> "absent", dev |-> <<>>],
      [dirs |-> {".opencode", ".opencode/tools"}, validator |-> "VALIDATOR_CODE", dev |-> <<>>],
      [dirs |-> {".opencode", ".opencode/tools"}, validator |-> "other", dev |-> <<>>],
      [dirs |-> {".opencode", ".opencode/tools", ".opencode/config-profiles"},
       validator |-> "absent", dev |-> <<ProfileDocument("dev", "interactive")>>] }

GitStates ==
    { [tool |-> "missing", repo |-> "none"],
      [tool |-> "broken", repo |-> "none"],
      [tool |-> "ok", repo |-> "none"],
      [tool |-> "ok", repo |-> "empty"],
      [tool |-> "ok", repo |-> "committed"] }

\* any scaffold state, with a few backlog contents
InitScaffold ==
    \E g \in GitStates, o \in OpencodeStates, a \in AiStates :
        /\ gitTool = g.tool
        /\ repo = g.repo
        /\ dirs = o.dirs \cup a
        /\ validator = o.validator
        /\ profiles = [n \in ProfileNames |-> o.dev]
        /\ gitignore \in {"absent", "user"}
        /\ opencodeJson \in {<<>>, <<UserDocument>>}
        /\ backlog \in IF "ai" \in a
                       THEN {<<>>, <<BACKLOG_TEMPLATE>>, <<<<"notes">>>>}
                       ELSE {<<>>}

\* any backlog content, in a repository that holds nothing else of the scaffold
InitBacklog ==
    /\ gitTool = "ok"
    /\ repo = "committed"
    /\ dirs = {"ai"}
    /\ validator = "absent"
    /\ profiles = [n \in ProfileNames |-> <<>>]
    /\ gitignore = "absent"
    /\ opencodeJson = <<>>
    /\ backlog \in { <<t>> : t \in Texts(MaxFrags) }

Init ==
    /\ InitScaffold \/ InitBacklog
    /\ pc = "idle"
    /\ mode = "interactive"
    /\ profile = ""
    /\ repoStatus = ""
    /\ err = NoError
    /\ stdout = <<>>
    /\ exitCode = -1
    /\ writes = {}
    /\ gitCalls = <<>>
    /\ p = NoProcess
    /\ pre = Snapshot
    /\ prev = "none"
    /\ runs = 0
    /\ commitsMade = 0
    /\ vres = NoProcess

(* ------------------------------- steps --------------------------------- *)

\* an uncaught exception ends the interpreter with exit status 1
Raise(type, msg) ==
    /\ pc' = "failed"
    /\ err' = [type |-> type, msg |-> msg]
    /\ exitCode' = 1

\* pa-setup.py: main, argument parsing up to the first step
StartRun(m, pr) ==
    /\ pc \in {"idle", "done", "failed"}
    /\ runs < MaxRuns
    /\ runs' = runs + 1
    /\ mode' = m
    /\ profile' = pr
    /\ pre' = Snapshot
    /\ prev' = IF pc = "idle" THEN "none"
               ELSE IF pc = "done" /\ mode = m /\ profile = pr THEN "repeated"
               ELSE "other"
    /\ pc' = "ensure_git_repo"
    /\ repoStatus' = ""
    /\ err' = NoError
    /\ stdout' = <<>>
    /\ exitCode' = -1
    /\ writes' = {}
    /\ gitCalls' = <<>>
    /\ p' = NoProcess
    /\ vres' = NoProcess
    /\ UNCHANGED <<gitTool, repo, dirs, gitignore, backlog, validator,
                   opencodeJson, profiles, commitsMade>>

\* pa-setup.py: ensure_git_repo.  The message of the first RuntimeError is
\* in Russian in the source ("Git is not found. Install Git and retry.").
EnsureGitRepo ==
    /\ pc = "ensure_git_repo"
    /\ \/ /\ gitTool = "missing"
          \* subprocess.run cannot start the executable
          /\ gitCalls' = <<"git --version">>
          /\ Raise("FileNotFoundError", <<"No such file or directory: 'git'">>)
          /\ UNCHANGED <<repo, repoStatus>>
       \/ /\ gitTool = "broken"
          /\ gitCalls' = <<"git --version">>
          /\ Raise("RuntimeError", <<"Git not found", "git --version: stderr">>)
          /\ UNCHANGED <<repo, repoStatus>>
       \/ /\ gitTool = "ok"
          /\ repo # "none"
          /\ gitCalls' = <<"git --version", "git rev-parse --is-inside-work-tree">>
          /\ repoStatus' = "existing"
          /\ pc' = "ensure_dirs"
          /\ UNCHANGED <<repo, err, exitCode>>
       \/ /\ gitTool = "ok"
          /\ repo = "none"
          /\ gitCalls' = <<"git --version", "git rev-parse --is-inside-work-tree", "git init">>
          /\ \/ /\ repo' = "empty"
                /\ repoStatus' = "initialized"
                /\ pc' = "ensure_dirs"
                /\ UNCHANGED <<err, exitCode>>
             \/ /\ Raise("RuntimeError", <<"git init failed", "git init: stderr">>)
                /\ UNCHANGED <<repo, repoStatus>>
    /\ UNCHANGED <<gitTool, dirs, gitignore, backlog, validator, opencodeJson,
                   profiles, mode, profile, stdout, writes, p, pre, prev,
                   runs, commitsMade, vres>>

\* pa-setup.py: ensure_dirs (mkdir with parents=True, exist_ok=True)
EnsureDirs ==
    /\ pc = "ensure_dirs"
    /\ dirs' = dirs \cup ScaffoldDirs
    /\ pc' = "ensure_gitignore"
    /\ UNCHANGED <<gitTool, repo, gitignore, backlog, validator, opencodeJson,
                   profiles, mode, profile, repoStatus, err, stdout, exitCode,
                   writes, gitCalls, p, pre, prev, runs, commitsMade, vres>>

\* pa-setup.py: ensure_gitignore
EnsureGitignore ==
    /\ pc = "ensure_gitignore"
    /\ IF gitignore # "absent"
       THEN UNCHANGED <<gitignore, writes>>
       ELSE /\ gitignore' = "GITIGNORE_TEMPLATE"
            /\ writes' = writes \cup {".gitignore"}
    /\ pc' = "write_backlog"
    /\ UNCHANGED <<gitTool, repo, dirs, backlog, validator, opencodeJson,
                   profiles, mode, profile, repoStatus, err, stdout, exitCode,
                   gitCalls, p, pre, prev, runs, commitsMade, vres>>

\* pa-setup.py: write_backlog, the legacy placeholder migration
MigratePlaceholder(content) ==
    IF Contains(content, LEGACY_MARKER)
    THEN Replace(content, LEGACY_MARKER, PLACEHOLDER)
    ELSE content

\* a migration that forgets the fresh template
MigratedWithoutTemplate(content) ==
    MIGRATED_HEADING \o Strip(content) \o <<"\n">>

\* pa-setup.py: write_backlog, the text written over a backlog without the table
Migrated(content) ==
    BACKLOG_TEMPLATE \o MIGRATED_HEADING \o Strip(content) \o <<"\n">>

\* pa-setup.py: write_backlog, the file it leaves (<<>> is "no file")
BacklogAfter(file) ==
    IF file = <<>> THEN <<BACKLOG_TEMPLATE>>
    ELSE LET content == MigratePlaceholder(file[1])
         IN  IF HasBacklogTable(content) THEN <<content>> ELSE <<Migrated(content)>>

\* pa-setup.py: write_backlog, whether it calls write_text
BacklogWritten(file) ==
    \/ file = <<>>
    \/ Contains(file[1], LEGACY_MARKER)
    \/ ~HasBacklogTable(MigratePlaceholder(file[1]))

\* pa-setup.py: write_backlog
WriteBacklog ==
    /\ pc = "write_backlog"
    /\ backlog' = BacklogAfter(backlog)
    /\ writes' = IF BacklogWritten(backlog) THEN writes \cup {"ai/backlog.md"} ELSE writes
    /\ pc' = "write_validator"
    /\ UNCHANGED <<gitTool, repo, dirs, gitignore, validator, opencodeJson,
                   profiles, mode, profile, repoStatus, err, stdout, exitCode,
                   gitCalls, p, pre, prev, runs, commitsMade, vres>>

\* pa-setup.py: write_validator
WriteValidator ==
    /\ pc = "write_validator"
    /\ IF validator # "absent"
       THEN UNCHANGED <<validator, writes>>
       ELSE /\ validator' = "VALIDATOR_CODE"
            /\ writes' = writes \cup {".opencode/tools/validate-pa-project.py"}
    /\ pc' = "write_opencode_json"
    /\ UNCHANGED <<gitTool, repo, dirs, gitignore, backlog, opencodeJson,
                   profiles, mode, profile, repoStatus, err, stdout, exitCode,
                   gitCalls, p, pre, prev, runs, commitsMade, vres>>

\* pa-setup.py: write_opencode_json
WriteOpencodeJson ==
    /\ pc = "write_opencode_json"
    /\ opencodeJson' = <<OpencodeDocument(mode)>>
    /\ writes' = writes \cup {"opencode.json"}
    /\ pc' = "write_profile"
    /\ UNCHANGED <<gitTool, repo, dirs, gitignore, backlog, validator,
                   profiles, mode, profile, repoStatus, err, stdout, exitCode,
                   gitCalls, p, pre, prev, runs, commitsMade, vres>>

\* write_profile without its "if path.exists(): return"
WriteProfileOverwrite ==
    /\ pc = "write_profile"
    /\ IF profile = ""
       THEN UNCHANGED <<profiles, writes>>
       ELSE /\ profiles' = [profiles EXCEPT ![profile] = <<ProfileDocument(profile, mode)>>]
            /\ writes' = writes \cup {profile}
    /\ pc' = "run_validation"
    /\ UNCHANGED <<gitTool, repo, dirs, gitignore, backlog, validator,
                   opencodeJson, mode, profile, repoStatus, err, stdout,
                   exitCode, gitCalls, p, pre, prev, runs, commitsMade, vres>>

\* pa-setup.py: main, "if args.profile:", and write_profile
WriteProfile ==
    /\ pc = "write_profile"
    /\ IF profile = "" \/ profiles[profile] # <<>>
       THEN UNCHANGED <<profiles, writes>>
       ELSE /\ profiles' = [profiles EXCEPT ![profile] = <<ProfileDocument(profile, mode)>>]
            /\ writes' = writes \cup {profile}
    /\ pc' = "run_validation"
    /\ UNCHANGED <<gitTool, repo, dirs, gitignore, backlog, validator,
                   opencodeJson, mode, profile, repoStatus, err, stdout,
                   exitCode, gitCalls, p, pre, prev, runs, commitsMade, vres>>

\* pa-setup.py: run_validation, the text of the RuntimeError
ValidationError(proc) == <<<<"Validation failed:">>>> \o proc.stderr

\* pa-setup.py: run_validation
RunValidation ==
    /\ pc = "run_validation"
    /\ \E proc \in IF validator = "VALIDATOR_CODE" THEN {ValidatorMain}
                   ELSE OtherValidatorRuns :
         /\ p' = proc
         /\ stdout' = stdout \o proc.stdout
         /\ IF proc.rc # 0
            THEN Raise("RuntimeError", ValidationError(proc))
            ELSE /\ pc' = "maybe_initial_commit"
                 /\ UNCHANGED <<err, exitCode>>
    /\ UNCHANGED <<gitTool, repo, dirs, gitignore, backlog, validator,
                   opencodeJson, profiles, mode, profile, repoStatus, writes,
                   gitCalls, pre, prev, runs, commitsMade, vres>>

\* maybe_initial_commit without its "if p.returncode == 0: return"
HasHeadIgnored == FALSE

\* pa-setup.py: maybe_initial_commit, the test that skips the commit
HasHead == repo = "committed"

\* pa-setup.py: maybe_initial_commit
MaybeInitialCommit ==
    /\ pc = "maybe_initial_commit"
    /\ \/ /\ HasHead
          /\ gitCalls' = gitCalls \o <<"git rev-parse --verify HEAD">>
          /\ UNCHANGED <<repo, commitsMade>>
       \/ /\ ~HasHead
          /\ gitCalls' = gitCalls \o <<"git rev-parse --verify HEAD", "git add .", "git commit">>
          /\ \/ /\ repo' = "committed"
                /\ commitsMade' = commitsMade + 1
             \/ UNCHANGED <<repo, commitsMade>>
    /\ pc' = "finish"
    /\ UNCHANGED <<gitTool, dirs, gitignore, backlog, validator, opencodeJson,
                   profiles, mode, profile, repoStatus, err, stdout, exitCode,
                   writes, p, pre, prev, runs, vres>>

\* pa-setup.py: main, the final print and "return 0"
Finish ==
    /\ pc = "finish"
    /\ stdout' = stdout \o <<<<"PA setup done.", repoStatus, mode>>>>
    /\ exitCode' = 0
    /\ pc' = "done"
    /\ UNCHANGED <<gitTool, repo, dirs, gitignore, backlog, validator,
                   opencodeJson, profiles, mode, profile, repoStatus, err,
                   writes, gitCalls, p, pre, prev, runs, commitsMade, vres>>

\* validate-pa-project.py run on its own, between setup runs
Validate ==
    /\ pc \in {"idle", "done", "failed"}
    /\ validator = "VALIDATOR_CODE"
    /\ vres = NoProcess
    /\ vres' = ValidatorMain
    /\ UNCHANGED <<gitTool, repo, dirs, gitignore, backlog, validator,
                   opencodeJson, profiles, pc, mode, profile, repoStatus, err,
                   stdout, exitCode, writes, gitCalls, p, pre, prev, runs,
                   commitsMade>>

Next ==
    \/ \E m \in Modes, pr \in ProfileArgs : StartRun(m, pr)
    \/ EnsureGitRepo
    \/ EnsureDirs
    \/ EnsureGitignore
    \/ WriteBacklog
    \/ WriteValidator
    \/ WriteOpencodeJson
    \/ WriteProfile
    \/ RunValidation
    \/ MaybeInitialCommit
    \/ Finish
    \/ Validate

Spec == Init /\ [][Next]_vars

(* ------------------------------- claims -------------------------------- *)

\* write_backlog of the current run has returned
BacklogStepDone ==
    \/ pc \in {"write_validator", "write_opencode_json", "write_profile",
               "run_validation", "maybe_initial_commit", "finish", "done"}
    \/ pc = "failed" /\ p # NoProcess

\* the current run repeats a run that succeeded, with the same arguments
SecondRun == prev = "repeated"

Occurs(x, seq) == \E i \in 1..Len(seq) : seq[i] = x

AllWhitespace(s) == \A i \in 1..Len(s) : s[i] \in Whitespace

\* C1: a second successful run with the same arguments changes no scaffold
\* file or directory; it writes opencode.json only, with the same content.
C1_Idempotent ==
    (pc = "done" /\ SecondRun) =>
        /\ dirs = pre.dirs
        /\ gitignore = pre.gitignore
        /\ backlog = pre.backlog
        /\ validator = pre.validator
        /\ profiles = pre.profiles
        /\ opencodeJson = pre.opencodeJson
        /\ writes = {"opencode.json"}

\* C2 as stated: a backlog without the header or the separator is migrated to
\* the template, the heading, and then the original text verbatim.
C2_MigrationVerbatim ==
    (BacklogStepDone /\ pre.backlog # <<>> /\ ~HasBacklogTable(pre.backlog[1])) =>
        LET new  == backlog[1]
            head == BACKLOG_TEMPLATE \o MIGRATED_HEADING
        IN  /\ Len(new) >= Len(head)
            /\ SubSeq(new, 1, Len(head)) = head
            /\ Contains(SubSeq(new, Len(head) + 1, Len(new)), pre.backlog[1])

\* C2 amended: a backlog without the header or the separator is migrated to
\* the template, the heading, the original text with its legacy markers
\* rewritten and its leading and trailing whitespace removed, and a newline.
C2_MigrationStripped ==
    (BacklogStepDone /\ pre.backlog # <<>> /\ ~HasBacklogTable(pre.backlog[1])) =>
        LET new  == backlog[1]
            head == BACKLOG_TEMPLATE \o MIGRATED_HEADING
            orig == pre.backlog[1]
            text == IF Contains(orig, LEGACY_MARKER)
                    THEN Replace(orig, LEGACY_MARKER, PLACEHOLDER) ELSE orig
            body == SubSeq(new, Len(head) + 1, Len(new) - 1)
        IN  /\ Len(new) > Len(head)
            /\ SubSeq(new, 1, Len(head)) = head
            /\ new[Len(new)] = "\n"
            /\ body # <<>> => Head(body) \notin Whitespace /\ body[Len(body)] \notin Whitespace
            /\ \E i \in 0..Len(text) :
                   /\ i + Len(body) <= Len(text)
                   /\ SubSeq(text, i + 1, i + Len(body)) = body
                   /\ AllWhitespace(SubSeq(text, 1, i))
                   /\ AllWhitespace(SubSeq(text, i + Len(body) + 1, Len(text)))

\* C2 witness: a migrated backlog whose text began with whitespace
C2_Witness ==
    /\ pc = "done"
    /\ pre.backlog = << <<"\n", "notes">> >>
    /\ backlog = << BACKLOG_TEMPLATE \o MIGRATED_HEADING \o <<"notes", "\n">> >>

\* C3: once ensure_dirs, write_backlog and write_opencode_json have run, every
\* check of the validator passes: it prints "PA validation OK" and returns 0.
C3_ScaffoldValidates ==
    ("opencode.json" \in writes) =>
        /\ opencodeJson # <<>>
        /\ {"ai", "ai/features", "ai/diary"} \subseteq dirs
        /\ backlog # <<>>
        /\ Contains(backlog[1], HEADER)
        /\ Contains(backlog[1], SEPARATOR)
        /\ ValidatorMain.rc = 0
        /\ ValidatorMain.stdout = << <<"PA validation OK">> >>
        /\ (validator = "VALIDATOR_CODE" /\ pc \in {"maybe_initial_commit", "finish", "done", "failed"}) =>
               /\ p.rc = 0
               /\ Occurs(<<"PA validation OK">>, stdout)
               /\ pc # "failed"

\* C3 witness: a run over a backlog of unrelated content passed validation
C3_Witness ==
    /\ pc = "done"
    /\ pre.backlog = << <<"notes">> >>
    /\ validator = "VALIDATOR_CODE"
    /\ p.rc = 0

\* the checks of the validator that fail in the current state, by position
FailedChecks ==
    { i \in 1..5 :
        \/ i = 1 /\ opencodeJson = <<>>
        \/ i = 2 /\ "ai" \notin dirs
        \/ i = 3 /\ "ai/features" \notin dirs
        \/ i = 4 /\ "ai/diary" \notin dirs
        \/ i = 5 /\ (backlog = <<>> \/ ~HasBacklogTable(backlog[1])) }

CheckMessages(i) ==
    IF i = 1 THEN {"Missing opencode.json in project root"}
    ELSE IF i = 2 THEN {"Missing ai/ directory"}
    ELSE IF i = 3 THEN {"Missing ai/features"}
    ELSE IF i = 4 THEN {"Missing ai/diary"}
    ELSE {"Missing ai/backlog.md",
          "ai/backlog.md does not contain the required backlog table header"}

\* C4: the validator prints one bullet per failed check, in the order of the
\* checks; it returns 2 under the FAILED banner iff a check failed, else 0
\* under the OK banner.
C4_ValidatorAccumulates ==
    (vres # NoProcess) =>
        IF FailedChecks = {}
        THEN vres.rc = 0 /\ vres.stdout = << <<"PA validation OK">> >>
        ELSE /\ vres.rc = 2
             /\ Len(vres.stdout) = 1 + Cardinality(FailedChecks)
             /\ vres.stdout[1] = <<"PA validation FAILED:">>
             /\ \A i \in FailedChecks :
                    LET k == Cardinality({j \in FailedChecks : j <= i})
                    IN  /\ vres.stdout[k + 1][1] = "- "
                        /\ vres.stdout[k + 1][2] \in CheckMessages(i)

\* C4 witness: the validator ran with the features directory and the backlog missing
C4_Witness ==
    /\ vres # NoProcess
    /\ "ai" \in dirs
    /\ "ai/features" \notin dirs
    /\ "ai/diary" \in dirs
    /\ backlog = <<>>
    /\ Len(vres.stdout) = 3

Effective(perm, pat) ==
    IF pat \in DOMAIN perm.bash THEN perm.bash[pat] ELSE perm.bash["*"]

\* C5: the permissions written for a mode follow the policy table: "*" is
\* present (ask, ask, allow), rm/cp/mv are ask in interactive and allow
\* otherwise, every tool pattern is allowed, and only full grants external
\* directories, with "*" as its only shell pattern.
C5_PolicyTable ==
    ("opencode.json" \in writes) =>
        LET perm == opencodeJson[1].permission
        IN  /\ "*" \in DOMAIN perm.bash
            /\ perm.bash["*"] = (IF mode = "full" THEN "allow" ELSE "ask")
            /\ \A pat \in MutatingPatterns :
                   Effective(perm, pat) = (IF mode = "interactive" THEN "ask" ELSE "allow")
            /\ \A pat \in ToolPatterns : Effective(perm, pat) = "allow"
            /\ ("external_directory" \in DOMAIN perm) <=> (mode = "full")
            /\ mode = "full" => perm.external_directory = "allow" /\ DOMAIN perm.bash = {"*"}
            /\ mode # "full" => MutatingPatterns \cup ToolPatterns \subseteq DOMAIN perm.bash

\* C5 witness: each mode has been written, here project after another mode
C5_Witness ==
    /\ pc = "done"
    /\ mode = "project"
    /\ pre.opencodeJson = <<OpencodeDocument("full")>>
    /\ "opencode.json" \in writes

\* C6: a .gitignore, a validator script or a profile record that exists before
\* a run is left as it is by the run, a profile keeping the mode of the run
\* that created it; opencode.json is written by every run that completes.
C6_NeverOverwritten ==
    /\ pre.gitignore # "absent" => gitignore = pre.gitignore /\ ".gitignore" \notin writes
    /\ pre.validator # "absent" =>
           /\ validator = pre.validator
           /\ ".opencode/tools/validate-pa-project.py" \notin writes
    /\ \A n \in ProfileNames :
           pre.profiles[n] # <<>> => profiles[n] = pre.profiles[n] /\ n \notin writes
    /\ pc = "done" => "opencode.json" \in writes

\* C6 witness: a run named an existing profile with another mode
C6_Witness ==
    /\ pc = "done"
    /\ profile = "dev"
    /\ pre.profiles["dev"] # <<>>
    /\ pre.profiles["dev"][1].mode # mode
    /\ pre.gitignore = "user"
    /\ pre.validator # "absent"

\* C7: after write_backlog a backlog that held the legacy marker holds it no
\* more, and a backlog with the table and without the marker is not written.
C7_LegacyRewritten ==
    (BacklogStepDone /\ pre.backlog # <<>>) =>
        /\ Contains(pre.backlog[1], LEGACY_MARKER) => ~Contains(backlog[1], LEGACY_MARKER)
        /\ (HasBacklogTable(pre.backlog[1]) /\ ~Contains(pre.backlog[1], LEGACY_MARKER)) =>
               backlog = pre.backlog /\ "ai/backlog.md" \notin writes

\* C8: when the validator returns non-zero the run fails with an error whose
\* text includes the validator's output, without the commit step, exit non-zero.
C8_ValidationFatal ==
    (p # NoProcess /\ p.rc # 0) =>
        /\ pc = "failed"
        /\ exitCode # 0
        /\ ~Occurs("git rev-parse --verify HEAD", gitCalls)
        /\ \A i \in 1..Len(p.stdout) : Occurs(p.stdout[i], err.msg)
        /\ \A i \in 1..Len(p.stderr) : Occurs(p.stderr[i], err.msg)

\* ensure_git_repo of the current run has returned or raised
GuardDone == pc \notin {"idle", "ensure_git_repo"}

\* the current run failed in ensure_git_repo
GuardFailed == pc = "failed" /\ p = NoProcess

\* C9: ensure_git_repo fails with the tooling-unavailable error when git cannot
\* be run; else reports "existing" inside a work tree without git init; else
\* runs git init once and reports "initialized" or fails with its stderr.  A
\* failing guard creates nothing.
C9_RepositoryGuard ==
    GuardDone =>
        /\ gitTool # "ok" =>
               /\ GuardFailed
               /\ err.type = "RuntimeError"
               /\ err.msg = <<"Git not found", "git --version: stderr">>
        /\ (gitTool = "ok" /\ pre.repo # "none") =>
               /\ repoStatus = "existing"
               /\ ~Occurs("git init", gitCalls)
               /\ ~GuardFailed
        /\ (gitTool = "ok" /\ pre.repo = "none") =>
               /\ Cardinality({i \in 1..Len(gitCalls) : gitCalls[i] = "git init"}) = 1
               /\ \/ repoStatus = "initialized" /\ ~GuardFailed /\ repo # "none"
                  \/ /\ GuardFailed
                     /\ err = [type |-> "RuntimeError",
                               msg |-> <<"git init failed", "git init: stderr">>]
        /\ GuardFailed =>
               /\ dirs = pre.dirs
               /\ writes = {}
               /\ Snapshot = pre

\* C10: maybe_initial_commit stages and commits only when there is no commit
\* at HEAD; over all runs the tool makes at most one commit; a commit that
\* fails is swallowed and the run ends with exit status 0.
C10_AtMostOneCommit ==
    /\ commitsMade <= 1
    /\ pc \in {"finish", "done"} =>
           /\ err = NoError
           /\ IF pre.repo = "committed"
              THEN /\ ~Occurs("git add .", gitCalls)
                   /\ ~Occurs("git commit", gitCalls)
                   /\ repo = pre.repo
              ELSE /\ Occurs("git add .", gitCalls)
                   /\ Cardinality({i \in 1..Len(gitCalls) : gitCalls[i] = "git commit"}) = 1
    /\ pc = "done" => exitCode = 0
    /\ pc = "finish" => ENABLED Finish

\* C10 witness: the run after the one that committed found HEAD and did nothing
C10_Witness ==
    /\ pc = "done"
    /\ runs = 2
    /\ commitsMade = 1
    /\ pre.repo = "committed"
    /\ ~Occurs("git commit", gitCalls)

====
